---- MODULE Spec2Model ----
(***************************************************************************)
(* The execution core of the threeatesix 80386 emulator: the register      *)
(* file, address generation, the opcode dispatch table, the opcode         *)
(* handlers, the Step driver and the mode switch, as state machine.        *)
(***************************************************************************)
EXTENDS Integers, Sequences, FiniteSets, TLC

VARIABLES
    registers,                            \* CpuRegisters: the fields AL..BH, AX..DI, ES..DS, IP and the flags
    registers8Bit,                        \* index of 8 bit registers: the location each entry points to
    registers16Bit,                       \* index of 16 bit registers
    registersSegmentRegisters,            \* index of segment registers
    mode,                                 \* CpuCore.mode
    flags,                                \* CpuCore.flags (CpuExecutionFlags)
    currentlyExecutingInstructionPointer, \* CpuCore.currentlyExecutingInstructionPointer
    lastExecutedInstructionPointer,       \* CpuCore.lastExecutedInstructionPointer
    currentByteAtCodePointer,             \* CpuCore.currentByteAtCodePointer
    mem,                                  \* the memory behind memoryAccessController (address -> byte, 0 elsewhere)
    ports,                                \* the port space behind ioPortAccessController (port -> byte, 0 elsewhere)
    busOut,                               \* the messages the last operation sent with bus.SendMessage, in order
    build,                                \* which of the two INSTR_MOV of the repository is linked
    phase,                                \* "constructed" (New80386CPU), "running" (after Init), "halted" (process ended)
    outcome,                              \* how the last Step ended: "none", "ok", or the fatal diagnostic
    op,                                   \* the last operation called on the core, with its argument
    locals,                               \* the variables outside CpuRegisters that a pointer refers to: destValue, value
    returned,                             \* the pointer the last readRm8 or readRm16 returned
    memAccesses,                          \* the data accesses the last operand operation made on memoryAccessController
    operandCalls,                         \* the number of operand operations called so far
    lastExecutedAt                        \* history: CS:IP at the entry of the last completed Step (CS = -1: none yet)

vars == <<registers, registers8Bit, registers16Bit, registersSegmentRegisters, mode, flags,
          currentlyExecutingInstructionPointer, lastExecutedInstructionPointer,
          currentByteAtCodePointer, mem, ports, busOut, build, phase, outcome, op,
          locals, returned, memAccesses, operandCalls, lastExecutedAt>>

operandVars == <<locals, returned, memAccesses, operandCalls>>

(***************************************************************************)
(* Bounds of the model.                                                    *)
(***************************************************************************)
\* the number of set-up instructions a program image holds before the instruction under test
MaxSetup == 1

\* the number of operand operations (readRm8, readRm16, writeRm8, writeRm16) called on a core
MaxRmOps == 2

(***************************************************************************)
(* Machine words.                                                          *)
(***************************************************************************)
Byte == 0..255

U16(x) == x % 65536

\* uint8 -> int16 -> uint16 as Go converts it: the value is kept, no sign is extended
Int16OfU8(b) == b

getBitValue(v, i) == (v \div (2 ^ i)) % 2

getMSB(v) == getBitValue(v, 7)

RECURSIVE AndBits(_, _, _)
AndBits(a, b, i) ==
    IF i = 0 THEN 0
    ELSE 2 * AndBits(a \div 2, b \div 2, i - 1) + (a % 2) * (b % 2)

\* Go's & on two uint8
And8(a, b) == AndBits(a, b, 8)

(***************************************************************************)
(* Constants of package common, and the bus messages.                      *)
(***************************************************************************)
REAL_MODE == 0

PROTECTED_MODE == 1

MESSAGE_REQUEST_CPU_MODESWITCH == "REQUEST_CPU_MODESWITCH"

MESSAGE_GLOBAL_CPU_MODESWITCH == "GLOBAL_CPU_MODESWITCH"

MESSAGE_GLOBAL_LOCK_BIOS_MEM_REGION == "GLOBAL_LOCK_BIOS_MEM_REGION"

BusMessage(subject, data) == [Subject |-> subject, Data |-> data]

(***************************************************************************)
(* The memory and port accessors: flat byte arrays, 16 bit little-endian.  *)
(***************************************************************************)
ReadAddr8(m, addr) == IF addr \in DOMAIN m THEN m[addr] ELSE 0

ReadAddr16(m, addr) == ReadAddr8(m, addr) + 256 * ReadAddr8(m, addr + 1)

WriteAddr8(m, addr, value) ==
    [a \in (DOMAIN m) \cup {addr} |-> IF a = addr THEN value ELSE m[a]]

WriteAddr16(m, addr, value) ==
    WriteAddr8(WriteAddr8(m, addr, value % 256), addr + 1, value \div 256)

PortRead8(p, port) == IF port \in DOMAIN p THEN p[port] ELSE 0

PortRead16(p, port) == PortRead8(p, port) + 256 * PortRead8(p, U16(port + 1))

PortWrite8(p, port, value) ==
    [a \in (DOMAIN p) \cup {port} |-> IF a = port THEN value ELSE p[a]]

PortWrite16(p, port, value) ==
    PortWrite8(PortWrite8(p, port, value % 256), U16(port + 1), value \div 256)

(***************************************************************************)
(* Address generation.  CS, IP, segment and address are uint16, so the     *)
(* shift and the sum are taken in 16 bits before the widening to uint32.   *)
(***************************************************************************)
BuildAddress(segment, address) == U16(U16(segment * 16) + address)

GetCurrentCodePointer(regs) == U16(U16(regs.CS * 16) + regs.IP)

(***************************************************************************)
(* The core as the handlers see it: a record of the state they read and    *)
(* write.  fatal is "none" until the handler ends the process.             *)
(***************************************************************************)
SetIP(c, addr) == [c EXCEPT !.registers.IP = addr]

SetCS(c, addr) == [c EXCEPT !.registers.CS = addr]

GetIP(c) == c.registers.IP

CodePointer(c) == GetCurrentCodePointer(c.registers)

Fatal(c, diagnostic) == [c EXCEPT !.fatal = diagnostic]

(***************************************************************************)
(* The ModR/M decoder: mod (bits 7-6), reg (bits 5-3), rm (bits 2-0), the  *)
(* displacement that follows and the bytes consumed (1 + displacement).    *)
(***************************************************************************)
DispSize(mod, rm) ==
    IF mod = 0 /\ rm = 6 THEN 2
    ELSE IF mod = 1 THEN 1
    ELSE IF mod = 2 THEN 2
    ELSE 0

SignExtend8(b) == IF b >= 128 THEN b + 65280 ELSE b

consumeModRm(c, addr) ==
    LET b == ReadAddr8(c.mem, addr)
        mod == b \div 64
        rm == b % 8
        size == DispSize(mod, rm)
    IN  [mod |-> mod, reg |-> (b \div 8) % 8, rm |-> rm,
         disp |-> IF size = 1 THEN SignExtend8(ReadAddr8(c.mem, addr + 1))
                  ELSE IF size = 2 THEN ReadAddr16(c.mem, addr + 1)
                  ELSE 0,
         bytesConsumed |-> 1 + size]

getAddressMode16(c, modrm) ==
    LET r == c.registers
        base == CASE modrm.rm = 0 -> r.BX + r.SI
                  [] modrm.rm = 1 -> r.BX + r.DI
                  [] modrm.rm = 2 -> r.BP + r.SI
                  [] modrm.rm = 3 -> r.BP + r.DI
                  [] modrm.rm = 4 -> r.SI
                  [] modrm.rm = 5 -> r.DI
                  [] modrm.rm = 6 -> IF modrm.mod = 0 THEN 0 ELSE r.BP
                  [] modrm.rm = 7 -> r.BX
    IN  U16(base + modrm.disp)

\* the r16 operand of the instruction at CS:IP
getReg16(c) == c.registers16Bit[consumeModRm(c, CodePointer(c) + 1).reg + 1]

\* the r/m16 operand of the instruction at CS:IP: a register or a memory word
getRm16(c) ==
    LET modrm == consumeModRm(c, CodePointer(c) + 1)
    IN  IF modrm.mod = 3
        THEN [kind |-> "register", loc |-> c.registers16Bit[modrm.rm + 1]]
        ELSE [kind |-> "memory", addr |-> getAddressMode16(c, modrm)]

Load16(c, operand) ==
    IF operand.kind = "register" THEN c.registers[operand.loc]
    ELSE ReadAddr16(c.mem, operand.addr)

Store16(c, operand, value) ==
    IF operand.kind = "register" THEN [c EXCEPT !.registers[operand.loc] = value]
    ELSE [c EXCEPT !.mem = WriteAddr16(c.mem, operand.addr, value)]

(***************************************************************************)
(* The operand operations of the core.  A pointer is the name of the       *)
(* location it refers to: a field of CpuRegisters, or one of the variables *)
(* destValue (the local of readRm8/readRm16) and value (the caller's).     *)
(* Each gives what it returns or assigns and the data accesses it makes.   *)
(***************************************************************************)
ModRm(b, disp) ==
    [mod |-> b \div 64, reg |-> (b \div 8) % 8, rm |-> b % 8, disp |-> disp,
     bytesConsumed |-> 1 + DispSize(b \div 64, b % 8)]

\* *ptr
Deref(c, ptr) == IF ptr \in DOMAIN c.registers THEN c.registers[ptr] ELSE c.locals[ptr]

MemAccess(kind, addr, width) == [kind |-> kind, addr |-> addr, width |-> width]

readRm8(c, modrm) ==
    IF modrm.mod = 3
    THEN [ptr |-> c.registers8Bit[modrm.rm + 1], destValue |-> c.locals.destValue,
          accesses |-> <<>>]
    ELSE LET addressMode == getAddressMode16(c, modrm)
         IN  [ptr |-> "destValue", destValue |-> ReadAddr8(c.mem, addressMode),
              accesses |-> <<MemAccess("read", addressMode, 8)>>]

readRm16(c, modrm) ==
    IF modrm.mod = 3
    THEN [ptr |-> c.registers16Bit[modrm.rm + 1], destValue |-> c.locals.destValue,
          accesses |-> <<>>]
    ELSE LET addressMode == getAddressMode16(c, modrm)
         IN  [ptr |-> "destValue", destValue |-> ReadAddr16(c.mem, addressMode),
              accesses |-> <<MemAccess("read", addressMode, 16)>>]

writeRm8(c, modrm, value) ==
    IF modrm.mod = 3
    THEN [registers8Bit |-> [c.registers8Bit EXCEPT ![modrm.rm + 1] = value],
          mem |-> c.mem, accesses |-> <<>>]
    ELSE LET addressMode == getAddressMode16(c, modrm)
         IN  [registers8Bit |-> c.registers8Bit,
              mem |-> WriteAddr8(c.mem, addressMode, Deref(c, value)),
              accesses |-> <<MemAccess("write", addressMode, 8)>>]

\* writeRm16 storing the value at the effective address whatever mod is
writeRm16_ThroughMemory(c, modrm, value) ==
    LET addressMode == getAddressMode16(c, modrm)
    IN  [registers16Bit |-> c.registers16Bit,
         mem |-> WriteAddr16(c.mem, addressMode, Deref(c, value)),
         accesses |-> <<MemAccess("write", addressMode, 16)>>]

writeRm16(c, modrm, value) ==
    IF modrm.mod = 3
    THEN [registers16Bit |-> [c.registers16Bit EXCEPT ![modrm.rm + 1] = value],
          mem |-> c.mem, accesses |-> <<>>]
    ELSE LET addressMode == getAddressMode16(c, modrm)
         IN  [registers16Bit |-> c.registers16Bit,
              mem |-> WriteAddr16(c.mem, addressMode, Deref(c, value)),
              accesses |-> <<MemAccess("write", addressMode, 16)>>]

writeR8(c, modrm, value) == [c.registers8Bit EXCEPT ![modrm.reg + 1] = value]

writeR16(c, modrm, value) == [c.registers16Bit EXCEPT ![modrm.reg + 1] = value]

(***************************************************************************)
(* The opcode handlers.                                                    *)
(***************************************************************************)
\* INSTR_NOP without the advance of IP
INSTR_NOP_NoAdvance(c) == c

INSTR_NOP(c) == SetIP(c, U16(GetIP(c) + 1))

INSTR_CLI(c) == SetIP(c, U16(GetIP(c) + 1))

INSTR_CLD(c) == SetIP([c EXCEPT !.registers.DF = 0], U16(GetIP(c) + 1))

\* INSTR_TEST_AL with the parity accumulated from 0 instead of 1
INSTR_TEST_AL_ParityFromZero(c) ==
    LET val == ReadAddr8(c.mem, CodePointer(c) + 1)
        val2 == c.registers.AL
        tmp == And8(val, val2)
        parity == (getBitValue(tmp, 0) + getBitValue(tmp, 1) + getBitValue(tmp, 2)
                     + getBitValue(tmp, 3) + getBitValue(tmp, 4) + getBitValue(tmp, 5)
                     + getBitValue(tmp, 6) + getBitValue(tmp, 7)) % 2
    IN  SetIP([c EXCEPT !.registers.SF = getMSB(tmp),
                        !.registers.ZF = IF tmp = 0 THEN 1 ELSE 0,
                        !.registers.PF = parity,
                        !.registers.CF = 0,
                        !.registers.OF = 0],
              U16(GetIP(c) + 2))

INSTR_TEST_AL(c) ==
    LET val == ReadAddr8(c.mem, CodePointer(c) + 1)
        val2 == c.registers.AL
        tmp == And8(val, val2)
        parity == (1 + getBitValue(tmp, 0) + getBitValue(tmp, 1) + getBitValue(tmp, 2)
                     + getBitValue(tmp, 3) + getBitValue(tmp, 4) + getBitValue(tmp, 5)
                     + getBitValue(tmp, 6) + getBitValue(tmp, 7)) % 2
    IN  SetIP([c EXCEPT !.registers.SF = getMSB(tmp),
                        !.registers.ZF = IF tmp = 0 THEN 1 ELSE 0,
                        !.registers.PF = parity,
                        !.registers.CF = 0,
                        !.registers.OF = 0],
              U16(GetIP(c) + 2))

INSTR_XCHG(c) ==
    LET modrm == consumeModRm(c, CodePointer(c) + 1)
        reg1 == c.registers[c.registers16Bit[modrm.mod + 1]]
        reg2 == c.registers[c.registers16Bit[modrm.reg + 1]]
        tmp == reg2
        \* reg2 = reg1; reg1 = tmp: the two locals are swapped, no register is written
    IN  SetIP(c, U16(GetIP(c) + 2))

\* INSTR_CMP with the operands of the comparison exchanged
INSTR_CMP_Swapped(c) ==
    LET src == ReadAddr8(c.mem, CodePointer(c) + 1)
        dst == c.registers.AL
        c1 == IF src = dst THEN [c EXCEPT !.registers.ZF = 1, !.registers.CF = 0]
              ELSE IF src < dst THEN [c EXCEPT !.registers.ZF = 0, !.registers.CF = 1]
              ELSE [c EXCEPT !.registers.ZF = 0, !.registers.CF = 0]
    IN  SetIP(c1, U16(GetIP(c) + 2))

INSTR_CMP(c) ==
    LET src == ReadAddr8(c.mem, CodePointer(c) + 1)
        dst == c.registers.AL
        c1 == IF src = dst THEN [c EXCEPT !.registers.ZF = 1, !.registers.CF = 0]
              ELSE IF dst < src THEN [c EXCEPT !.registers.ZF = 0, !.registers.CF = 1]
              ELSE IF dst > src THEN [c EXCEPT !.registers.ZF = 0, !.registers.CF = 0]
              ELSE c
    IN  IF c.currentByteAtCodePointer = \h3C
        THEN SetIP(c1, U16(GetIP(c) + 2))
        ELSE Fatal(c, "Unrecognised CMP instruction!")

INSTR_IN(c) ==
    LET b == c.currentByteAtCodePointer
        imm8 == ReadAddr8(c.mem, CodePointer(c) + 1)
        imm16 == ReadAddr16(c.mem, CodePointer(c) + 1)
        dx == c.registers.DX
        c1 == CASE b = \hE4 -> [c EXCEPT !.registers.AL = PortRead8(c.ports, imm8)]
                [] b = \hE5 -> [c EXCEPT !.registers.AL = PortRead8(c.ports, dx)]
                [] b = \hEC -> [c EXCEPT !.registers.AX = PortRead16(c.ports, imm16)]
                [] b = \hED -> [c EXCEPT !.registers.AX = PortRead16(c.ports, dx)]
                [] OTHER -> c
    IN  IF b \in {\hE4, \hE5, \hEC, \hED}
        THEN SetIP(c1, U16(GetIP(c) + 2))
        ELSE Fatal(c, "Unrecognised IN (port read) instruction!")

\* INSTR_OUT taking the port of every form from the byte after the opcode
INSTR_OUT_PortAlwaysImm(c) ==
    LET b == c.currentByteAtCodePointer
        imm == ReadAddr8(c.mem, CodePointer(c) + 1)
        r == c.registers
        c1 == CASE b = \hE6 -> [c EXCEPT !.ports = PortWrite8(c.ports, imm, r.AL)]
                [] b = \hE7 -> [c EXCEPT !.ports = PortWrite16(c.ports, imm, r.AX)]
                [] b = \hEE -> [c EXCEPT !.ports = PortWrite8(c.ports, imm, r.AL)]
                [] b = \hEF -> [c EXCEPT !.ports = PortWrite16(c.ports, imm, r.AX)]
                [] OTHER -> c
    IN  IF b \in {\hE6, \hE7, \hEE, \hEF}
        THEN SetIP(c1, U16(GetIP(c) + 2))
        ELSE Fatal(c, "Unrecognised IN (port read) instruction!")

INSTR_OUT(c) ==
    LET b == c.currentByteAtCodePointer
        imm == ReadAddr8(c.mem, CodePointer(c) + 1)
        r == c.registers
        c1 == CASE b = \hE6 -> [c EXCEPT !.ports = PortWrite8(c.ports, imm, r.AL)]
                [] b = \hE7 -> [c EXCEPT !.ports = PortWrite16(c.ports, imm, r.AX)]
                [] b = \hEE -> [c EXCEPT !.ports = PortWrite8(c.ports, r.DX, r.AL)]
                [] b = \hEF -> [c EXCEPT !.ports = PortWrite16(c.ports, r.DX, r.AX)]
                [] OTHER -> c
    IN  IF b \in {\hE6, \hE7, \hEE, \hEF}
        THEN SetIP(c1, U16(GetIP(c) + 2))
        ELSE Fatal(c, "Unrecognised IN (port read) instruction!")

\* INSTR_JMP_FAR_PTR16 reading the segment before the offset
INSTR_JMP_FAR_PTR16_SegmentFirst(c) ==
    LET destAddr == ReadAddr16(c.mem, CodePointer(c) + 3)
        segment == ReadAddr16(c.mem, CodePointer(c) + 1)
    IN  SetIP(SetCS(c, segment), destAddr)

INSTR_JMP_FAR_PTR16(c) ==
    LET destAddr == ReadAddr16(c.mem, CodePointer(c) + 1)
        segment == ReadAddr16(c.mem, CodePointer(c) + 3)
    IN  SetIP(SetCS(c, segment), destAddr)

\* INSTR_JMP_NEAR_REL16 relative to the first byte of the instruction
INSTR_JMP_NEAR_REL16_FromOpcode(c) ==
    LET offset == ReadAddr16(c.mem, CodePointer(c) + 1)
        destAddr == U16(c.registers.IP + offset)
    IN  SetIP(c, destAddr)

INSTR_JMP_NEAR_REL16(c) ==
    LET offset == ReadAddr16(c.mem, CodePointer(c) + 1)
        destAddr == U16(U16(c.registers.IP + 3) + offset)
    IN  SetIP(c, destAddr)

INSTR_JZ_SHORT_REL8(c) ==
    LET offset == Int16OfU8(ReadAddr8(c.mem, CodePointer(c) + 1))
        destAddr == U16(U16(c.registers.IP + 2) + offset)
    IN  IF c.registers.ZF = 0
        THEN SetIP(c, destAddr)
        ELSE SetIP(c, U16(GetIP(c) + 2))

INSTR_JNZ_SHORT_REL8(c) ==
    LET offset == Int16OfU8(ReadAddr8(c.mem, CodePointer(c) + 1))
        destAddr == U16(U16(c.registers.IP + 2) + offset)
    IN  IF c.registers.ZF # 0
        THEN SetIP(c, destAddr)
        ELSE SetIP(c, U16(GetIP(c) + 2))

INSTR_JCXZ_SHORT_REL8(c) ==
    LET offset == Int16OfU8(ReadAddr8(c.mem, CodePointer(c) + 1))
        destAddr == U16(U16(c.registers.IP + 2) + offset)
    IN  IF c.registers.CX = 0
        THEN SetIP(c, destAddr)
        ELSE SetIP(c, U16(GetIP(c) + 2))

\* INSTR_MOV of package cpu, in the file of mapOpCodes
INSTR_MOV_cpu(c) ==
    LET b == c.currentByteAtCodePointer
        modrm == consumeModRm(c, CodePointer(c) + 1)
    IN  CASE b = \hB0 ->
               SetIP([c EXCEPT !.registers.AL = ReadAddr8(c.mem, CodePointer(c) + 1)],
                     U16(GetIP(c) + 2))
          [] b = \hBB ->
               SetIP([c EXCEPT !.registers.BX = ReadAddr16(c.mem, CodePointer(c) + 1)],
                     U16(GetIP(c) + 3))
          [] b = \hB4 ->
               SetIP([c EXCEPT !.registers.AH = ReadAddr8(c.mem, CodePointer(c) + 1)],
                     U16(GetIP(c) + 2))
          [] b = \h8B ->
               LET dest == getReg16(c)
                   src == getRm16(c)
               IN  SetIP([c EXCEPT !.registers[dest] = Load16(c, src)], U16(GetIP(c) + 2))
          [] b = \h8C ->
               IF modrm.reg + 1 > Len(c.registersSegmentRegisters)
               THEN Fatal(c, "index out of range")
               ELSE LET src == c.registersSegmentRegisters[modrm.reg + 1]
                        dest == getRm16(c)
                    IN  SetIP(Store16(c, dest, c.registers[src]), U16(GetIP(c) + 2))
          [] b = \h8E ->
               IF modrm.reg + 1 > Len(c.registersSegmentRegisters)
               THEN Fatal(c, "index out of range")
               ELSE LET src == getRm16(c)
                        dest == c.registersSegmentRegisters[modrm.reg + 1]
                    IN  LET c1 == [c EXCEPT !.registers[dest] = Load16(c, src)]
                        IN  SetIP(c1, U16(GetIP(c1) + 2))
          [] OTHER -> Fatal(c, "Unrecognised MOV instruction!")

\* INSTR_MOV of package intel8086.  currentByteDecodeStart is the address of the
\* opcode byte and currentByteAddr the decode cursor, which starts on it.
INSTR_MOV_intel8086(c) ==
    LET b == c.currentByteAtCodePointer
        currentByteDecodeStart == CodePointer(c)
        cursor == currentByteDecodeStart + 1
        modrm == consumeModRm(c, cursor)
        addressMode == getAddressMode16(c, modrm)
        sregOk == modrm.reg + 1 <= Len(c.registersSegmentRegisters)
        sreg == c.registersSegmentRegisters[modrm.reg + 1]
        \* the decode cursor when the case ends
        currentByteAddr ==
            CASE b \in {\hA0, \hA2} \cup (\hB0..\hB7) -> cursor + 1
              [] b \in {\hA1, \hA3} \cup (\hB8..\hBF) -> cursor + 2
              [] OTHER -> cursor + modrm.bytesConsumed
        c1 == CASE b = \hA0 ->
                     [c EXCEPT !.registers.AL = ReadAddr8(c.mem, ReadAddr8(c.mem, cursor))]
                [] b = \hA1 ->
                     [c EXCEPT !.registers.AX = ReadAddr16(c.mem, ReadAddr16(c.mem, cursor))]
                [] b = \hA2 ->
                     [c EXCEPT !.mem = WriteAddr8(c.mem, ReadAddr8(c.mem, cursor), c.registers.AL)]
                [] b = \hA3 ->
                     [c EXCEPT !.mem = WriteAddr16(c.mem, ReadAddr16(c.mem, cursor), c.registers.AX)]
                [] b \in \hB0..\hB7 ->
                     [c EXCEPT !.registers[c.registers8Bit[b - \hB0 + 1]] = ReadAddr8(c.mem, cursor)]
                [] b \in \hB8..\hBF ->
                     [c EXCEPT !.registers[c.registers16Bit[b - \hB8 + 1]] = ReadAddr16(c.mem, cursor)]
                [] b = \h8A ->
                     [c EXCEPT !.registers[c.registers8Bit[modrm.reg + 1]] =
                         IF modrm.mod = 3 THEN c.registers[c.registers8Bit[modrm.rm + 1]]
                         ELSE ReadAddr8(c.mem, addressMode)]
                [] b = \h8B ->
                     [c EXCEPT !.registers[c.registers16Bit[modrm.reg + 1]] =
                         IF modrm.mod = 3 THEN c.registers[c.registers16Bit[modrm.rm + 1]]
                         ELSE ReadAddr16(c.mem, addressMode)]
                [] b = \h8C ->
                     IF ~sregOk THEN Fatal(c, "index out of range")
                     ELSE IF modrm.mod = 3
                     THEN [c EXCEPT !.registers[c.registers16Bit[modrm.rm + 1]] = c.registers[sreg]]
                     ELSE [c EXCEPT !.mem = WriteAddr16(c.mem, addressMode, c.registers[sreg])]
                [] b = \h8E ->
                     IF ~sregOk THEN Fatal(c, "index out of range")
                     ELSE [c EXCEPT !.registers[sreg] =
                              IF modrm.mod = 3 THEN c.registers[c.registers16Bit[modrm.rm + 1]]
                              ELSE ReadAddr16(c.mem, addressMode)]
                [] OTHER -> Fatal(c, "Unrecognised MOV instruction!")
    IN  IF c1.fatal # "none" THEN c1
        ELSE SetIP(c1, U16(GetIP(c1) + U16(currentByteAddr - currentByteDecodeStart)))

(***************************************************************************)
(* The dispatch table and the driver.                                      *)
(***************************************************************************)
mapOpCodes(b) ==
    CASE b = \hEA -> "INSTR_JMP_FAR_PTR16"
      [] b = \hE9 -> "INSTR_JMP_NEAR_REL16"
      [] b = \hE3 -> "INSTR_JCXZ_SHORT_REL8"
      [] b = \h74 -> "INSTR_JZ_SHORT_REL8"
      [] b = \h75 -> "INSTR_JNZ_SHORT_REL8"
      [] b = \hFA -> "INSTR_CLI"
      [] b = \hFC -> "INSTR_CLD"
      [] b \in {\hE4, \hE5, \hEC, \hED} -> "INSTR_IN"
      [] b \in {\hE6, \hE7, \hEE, \hEF} -> "INSTR_OUT"
      [] b = \hA8 -> "INSTR_TEST_AL"
      [] b \in {\hB0, \hBB, \hB4, \h8B, \h8C, \h8E} -> "INSTR_MOV"
      [] b = \h3C -> "INSTR_CMP"
      [] b = \h87 -> "INSTR_XCHG"
      [] b = \h90 -> "INSTR_NOP"
      [] OTHER -> "nil"

\* the call of the handler an entry of opCodeMap holds
OpCodeImpl(handler, c) ==
    CASE handler = "INSTR_JMP_FAR_PTR16" -> INSTR_JMP_FAR_PTR16(c)
      [] handler = "INSTR_JMP_NEAR_REL16" -> INSTR_JMP_NEAR_REL16(c)
      [] handler = "INSTR_JCXZ_SHORT_REL8" -> INSTR_JCXZ_SHORT_REL8(c)
      [] handler = "INSTR_JZ_SHORT_REL8" -> INSTR_JZ_SHORT_REL8(c)
      [] handler = "INSTR_JNZ_SHORT_REL8" -> INSTR_JNZ_SHORT_REL8(c)
      [] handler = "INSTR_CLI" -> INSTR_CLI(c)
      [] handler = "INSTR_CLD" -> INSTR_CLD(c)
      [] handler = "INSTR_IN" -> INSTR_IN(c)
      [] handler = "INSTR_OUT" -> INSTR_OUT(c)
      [] handler = "INSTR_TEST_AL" -> INSTR_TEST_AL(c)
      [] handler = "INSTR_MOV" ->
           IF c.build = "cpu" THEN INSTR_MOV_cpu(c) ELSE INSTR_MOV_intel8086(c)
      [] handler = "INSTR_CMP" -> INSTR_CMP(c)
      [] handler = "INSTR_XCHG" -> INSTR_XCHG(c)
      [] handler = "INSTR_NOP" -> INSTR_NOP(c)

\* read the byte at CS:IP into the scratch field, look the handler up (fatal if
\* there is none) and call it
routeInstruction(c) ==
    LET b == ReadAddr8(c.mem, CodePointer(c))
        c1 == [c EXCEPT !.currentByteAtCodePointer = b]
    IN  IF mapOpCodes(b) = "nil" THEN Fatal(c1, "unknown opcode")
        ELSE OpCodeImpl(mapOpCodes(b), c1)

LoopDiagnostic == "CPU appears to be in a loop! Did you forget to increment the IP register?"

\* Step with the watchdog's comparison made after the instruction was routed
Step_WatchdogAfter(c) ==
    LET c1 == [c EXCEPT !.currentlyExecutingInstructionPointer = CodePointer(c)]
        c2 == routeInstruction(c1)
    IN  IF c2.fatal # "none" THEN c2
        ELSE IF c2.currentlyExecutingInstructionPointer = c2.lastExecutedInstructionPointer
        THEN Fatal(c2, LoopDiagnostic)
        ELSE [c2 EXCEPT !.lastExecutedInstructionPointer =
                            c2.currentlyExecutingInstructionPointer]

Step(c) ==
    LET c1 == [c EXCEPT !.currentlyExecutingInstructionPointer = CodePointer(c)]
    IN  IF c1.currentlyExecutingInstructionPointer = c1.lastExecutedInstructionPointer
        THEN Fatal(c1, LoopDiagnostic)
        ELSE LET c2 == routeInstruction(c1)
             IN  IF c2.fatal # "none" THEN c2
                 ELSE [c2 EXCEPT !.lastExecutedInstructionPointer =
                                     c2.currentlyExecutingInstructionPointer]

(***************************************************************************)
(* Lifecycle and mode switch.  Each gives the fields it sets and the       *)
(* messages it sends on the bus.                                           *)
(***************************************************************************)
\* Reset without the message on the bus
Reset_NoBroadcast(regs) ==
    [registers |-> [regs EXCEPT !.CS = \hF000, !.IP = \hFFF0], sent |-> <<>>]

Reset(regs) ==
    [registers |-> [regs EXCEPT !.CS = \hF000, !.IP = \hFFF0],
     sent |-> <<BusMessage(MESSAGE_GLOBAL_LOCK_BIOS_MEM_REGION, <<>>)>>]

\* EnterMode that falls back to real mode for a byte that names no mode
EnterMode_Validated(newMode) ==
    LET m == IF newMode \in {REAL_MODE, PROTECTED_MODE} THEN newMode ELSE REAL_MODE
    IN  [mode |-> m, sent |-> <<BusMessage(MESSAGE_GLOBAL_CPU_MODESWITCH, <<m>>)>>]

EnterMode(newMode) ==
    [mode |-> newMode,
     sent |-> <<BusMessage(MESSAGE_GLOBAL_CPU_MODESWITCH, <<newMode>>)>>]

OnReceiveMessage(currentMode, message) ==
    IF message.Subject = MESSAGE_REQUEST_CPU_MODESWITCH
    THEN EnterMode(message.Data[1])
    ELSE [mode |-> currentMode, sent |-> <<>>]

(***************************************************************************)
(* Memory images: a program at the address the core fetches from after     *)
(* Reset, zero elsewhere.  A program is up to MaxSetup set-up instructions *)
(* followed by one instruction of TestInstrs.                              *)
(***************************************************************************)
SetupInstrs ==
    { <<\hB0, \h05>>,            \* MOV AL, 5
      <<\hBB, \h34, \h12>>,      \* MOV BX, 1234h
      <<\h3C, \h05>>,            \* CMP AL, 5
      <<\hA8, \h0F>>,            \* TEST AL, 0Fh
      <<\h90>>,                  \* NOP
      <<\hE4, \h61>> }           \* IN AL, 61h

TestInstrs ==
    SetupInstrs \cup
    { <<\hFA>>, <<\hFC>>,
      <<\hB0, \h2A>>, <<\hB4, \h12>>, <<\hB1, \h01>>, <<\hB8, \h34, \h12>>,
      <<\hA0, \h10>>, <<\h8A, \hC3>>,
      <<\h3C, \h2A>>,
      <<\hA8, \hFF>>,
      <<\h74, \h02>>, <<\h75, \h02>>, <<\h74, \hFE>>, <<\h75, \hFE>>,
      <<\hE3, \h02>>, <<\hE3, \hFE>>,
      <<\hE9, \h03, \h00>>, <<\hE9, \hFD, \hFF>>, <<\hE9, \hFC, \hFF>>,
      <<\hEA, \h00, \h10, \h00, \h20>>,      \* JMP 2000:1000
      <<\hEA, \hF0, \hFF, \h00, \hF0>>,      \* JMP F000:FFF0
      <<\hEA, \hF0, \hFF, \h00, \h02>>,      \* JMP 0200:FFF0
      <<\hEA, \hF0, \hFF, \h00, \h10>>,      \* JMP 1000:FFF0
      <<\hE5>>, <<\hEC, \h61, \h00>>, <<\hED>>,
      <<\hE6, \h61>>, <<\hE7, \h61>>, <<\hEE>>, <<\hEF>>,
      <<\h87, \hD8>>,                        \* XCHG AX, BX
      <<\h8B, \hC3>>,                        \* MOV AX, BX
      <<\h8B, \hCB>>,                        \* MOV CX, BX
      <<\h8B, \h07>>,                        \* MOV AX, [BX]
      <<\h8B, \h86, \hF0, \hFF>>,            \* MOV AX, [BP+FFF0h]
      <<\h8C, \hC8>>,                        \* MOV AX, CS
      <<\h8C, \h0F>>,                        \* MOV [BX], CS
      <<\h8C, \hE0>>,                        \* MOV AX, Sreg 4
      <<\h8E, \hD8>>,                        \* MOV DS, AX
      <<\h8E, \hCB>> }                       \* MOV CS, BX

RECURSIVE Flatten(_)
Flatten(ss) == IF ss = <<>> THEN <<>> ELSE Head(ss) \o Flatten(Tail(ss))

SeqsUpTo(S, n) == UNION { [1..k -> S] : k \in 0..n }

LoadImage(bytes, base) == [a \in base..(base + Len(bytes) - 1) |-> bytes[a - base + 1]]

ResetVector == BuildAddress(\hF000, \hFFF0)

MemoryImages ==
    { LoadImage(Flatten(setup) \o <<test>>[1], ResetVector) :
        setup \in SeqsUpTo(SetupInstrs, MaxSetup), test \in TestInstrs }

PortImages == { [a \in {\h61} |-> \hA5] }

Builds == {"cpu", "intel8086"}

ModeBytes == {REAL_MODE, PROTECTED_MODE, 7}

Messages ==
    { BusMessage(MESSAGE_REQUEST_CPU_MODESWITCH, <<m>>) : m \in ModeBytes }
    \cup { BusMessage(MESSAGE_GLOBAL_CPU_MODESWITCH, <<REAL_MODE>>) }

(***************************************************************************)
(* The state machine.                                                      *)
(***************************************************************************)
RegisterNames ==
    { "AL", "CL", "DL", "BL", "AH", "CH", "DH", "BH",
      "AX", "CX", "DX", "BX", "SP", "BP", "SI", "DI",
      "ES", "CS", "SS", "DS", "IP",
      "CF", "PF", "ZF", "SF", "DF", "OF" }

\* no Step has completed
NoStepYet == [CS |-> -1, IP |-> -1]

\* no operand operation has been called: nothing returned, no access made
NoOperandCalls ==
    /\ locals = [destValue |-> 0, value |-> 0]
    /\ returned = "nil"
    /\ memAccesses = <<>>
    /\ operandCalls = 0

\* the state New80386CPU returns, with the memory and ports of the machine
New80386CPU ==
    /\ registers = [n \in RegisterNames |-> 0]
    /\ registers8Bit = <<"AL", "CL", "DL", "BL", "AH", "CH", "DH", "BH">>
    /\ registers16Bit = <<"AX", "CX", "DX", "BX", "SP", "BP", "SI", "DI">>
    /\ registersSegmentRegisters = <<"ES", "CS", "SS", "DS">>
    /\ mode = 0
    /\ flags = [CS_OVERRIDE |-> 0, CS_OVERRIDE_ENABLE |-> FALSE, CR0 |-> 0]
    /\ currentlyExecutingInstructionPointer = 0
    /\ lastExecutedInstructionPointer = 0
    /\ currentByteAtCodePointer = 0
    /\ mem \in MemoryImages
    /\ ports \in PortImages
    /\ busOut = <<>>
    /\ build \in Builds
    /\ phase = "constructed"
    /\ outcome = "none"
    /\ op = [name |-> "New80386CPU", arg |-> <<>>]
    /\ NoOperandCalls
    /\ lastExecutedAt = NoStepYet

Core ==
    [registers |-> registers,
     registers8Bit |-> registers8Bit,
     registers16Bit |-> registers16Bit,
     registersSegmentRegisters |-> registersSegmentRegisters,
     currentlyExecutingInstructionPointer |-> currentlyExecutingInstructionPointer,
     lastExecutedInstructionPointer |-> lastExecutedInstructionPointer,
     currentByteAtCodePointer |-> currentByteAtCodePointer,
     mem |-> mem,
     ports |-> ports,
     build |-> build,
     locals |-> locals,
     fatal |-> "none"]

\* core.Init(bus): EnterMode(REAL_MODE), then Reset()
Init ==
    /\ phase = "constructed"
    /\ LET e == EnterMode(REAL_MODE)
           r == Reset(registers)
       IN  /\ mode' = e.mode
           /\ registers' = r.registers
           /\ busOut' = e.sent \o r.sent
    /\ phase' = "running"
    /\ op' = [name |-> "Init", arg |-> <<>>]
    /\ UNCHANGED <<registers8Bit, registers16Bit, registersSegmentRegisters, flags,
                   currentlyExecutingInstructionPointer, lastExecutedInstructionPointer,
                   currentByteAtCodePointer, mem, ports, build, outcome>>
    /\ UNCHANGED operandVars
    /\ UNCHANGED lastExecutedAt

DoReset ==
    /\ phase = "running"
    /\ LET r == Reset(registers)
       IN  /\ registers' = r.registers
           /\ busOut' = r.sent
    /\ op' = [name |-> "Reset", arg |-> <<>>]
    /\ UNCHANGED <<registers8Bit, registers16Bit, registersSegmentRegisters, mode, flags,
                   currentlyExecutingInstructionPointer, lastExecutedInstructionPointer,
                   currentByteAtCodePointer, mem, ports, build, phase, outcome>>
    /\ UNCHANGED operandVars
    /\ UNCHANGED lastExecutedAt

DoOnReceiveMessage ==
    /\ phase = "running"
    /\ \E message \in Messages :
         LET e == OnReceiveMessage(mode, message)
         IN  /\ mode' = e.mode
             /\ busOut' = e.sent
             /\ op' = [name |-> "OnReceiveMessage", arg |-> message]
    /\ UNCHANGED <<registers, registers8Bit, registers16Bit, registersSegmentRegisters, flags,
                   currentlyExecutingInstructionPointer, lastExecutedInstructionPointer,
                   currentByteAtCodePointer, mem, ports, build, phase, outcome>>
    /\ UNCHANGED operandVars
    /\ UNCHANGED lastExecutedAt

DoStep ==
    /\ phase = "running"
    /\ LET c == Step(Core)
       IN  /\ registers' = c.registers
           /\ registers8Bit' = c.registers8Bit
           /\ registers16Bit' = c.registers16Bit
           /\ registersSegmentRegisters' = c.registersSegmentRegisters
           /\ currentlyExecutingInstructionPointer' = c.currentlyExecutingInstructionPointer
           /\ lastExecutedInstructionPointer' = c.lastExecutedInstructionPointer
           /\ currentByteAtCodePointer' = c.currentByteAtCodePointer
           /\ mem' = c.mem
           /\ ports' = c.ports
           /\ outcome' = IF c.fatal = "none" THEN "ok" ELSE c.fatal
           /\ phase' = IF c.fatal = "none" THEN "running" ELSE "halted"
    /\ lastExecutedAt' = IF outcome' = "ok"
                         THEN [CS |-> registers.CS, IP |-> registers.IP]
                         ELSE lastExecutedAt
    /\ busOut' = <<>>
    /\ op' = [name |-> "Step", arg |-> <<>>]
    /\ UNCHANGED <<mode, flags, build>>
    /\ UNCHANGED operandVars

Next == Init \/ DoReset \/ DoOnReceiveMessage \/ DoStep

Spec == New80386CPU /\ [][Next]_vars

(***************************************************************************)
(* CMP AL, imm8 over every AL and every immediate: the core after a Reset, *)
(* with the instruction at the reset vector.  ZF and CF start as an        *)
(* earlier CMP with another outcome left them, so that the instruction has *)
(* to write at least one of them.                                          *)
(***************************************************************************)
InitCmp ==
    /\ \E al \in Byte, imm \in Byte :
         /\ registers = [n \in RegisterNames |->
                           CASE n = "AL" -> al
                             [] n = "CS" -> \hF000
                             [] n = "IP" -> \hFFF0
                             [] n = "ZF" -> IF al < imm THEN 1 ELSE 0
                             [] n = "CF" -> IF al < imm THEN 0 ELSE 1
                             [] OTHER -> 0]
         /\ mem = LoadImage(<<\h3C, imm>>, ResetVector)
    /\ registers8Bit = <<"AL", "CL", "DL", "BL", "AH", "CH", "DH", "BH">>
    /\ registers16Bit = <<"AX", "CX", "DX", "BX", "SP", "BP", "SI", "DI">>
    /\ registersSegmentRegisters = <<"ES", "CS", "SS", "DS">>
    /\ mode = REAL_MODE
    /\ flags = [CS_OVERRIDE |-> 0, CS_OVERRIDE_ENABLE |-> FALSE, CR0 |-> 0]
    /\ currentlyExecutingInstructionPointer = 0
    /\ lastExecutedInstructionPointer = 0
    /\ currentByteAtCodePointer = 0
    /\ ports \in PortImages
    /\ busOut = Reset(registers).sent
    /\ build = "cpu"
    /\ phase = "running"
    /\ outcome = "none"
    /\ op = [name |-> "Reset", arg |-> <<>>]
    /\ NoOperandCalls
    /\ lastExecutedAt = NoStepYet

NextCmp == DoStep

SpecCmp == InitCmp /\ [][NextCmp]_vars

(***************************************************************************)
(* TEST AL, imm8 over every AL and every immediate: the core after a       *)
(* Reset, with the instruction at the reset vector.  The flags start as an *)
(* earlier TEST followed by a CMP with a borrow left them: CF set, ZF      *)
(* clear, SF and PF either way.                                            *)
(***************************************************************************)
InitTest ==
    /\ \E al \in Byte, imm \in Byte :
         /\ registers = [n \in RegisterNames |->
                           CASE n = "AL" -> al
                             [] n = "CS" -> \hF000
                             [] n = "IP" -> \hFFF0
                             [] n = "CF" -> 1
                             [] n = "SF" -> al % 2
                             [] n = "PF" -> imm % 2
                             [] OTHER -> 0]
         /\ mem = LoadImage(<<\hA8, imm>>, ResetVector)
    /\ registers8Bit = <<"AL", "CL", "DL", "BL", "AH", "CH", "DH", "BH">>
    /\ registers16Bit = <<"AX", "CX", "DX", "BX", "SP", "BP", "SI", "DI">>
    /\ registersSegmentRegisters = <<"ES", "CS", "SS", "DS">>
    /\ mode = REAL_MODE
    /\ flags = [CS_OVERRIDE |-> 0, CS_OVERRIDE_ENABLE |-> FALSE, CR0 |-> 0]
    /\ currentlyExecutingInstructionPointer = 0
    /\ lastExecutedInstructionPointer = 0
    /\ currentByteAtCodePointer = 0
    /\ ports \in PortImages
    /\ busOut = Reset(registers).sent
    /\ build = "cpu"
    /\ phase = "running"
    /\ outcome = "none"
    /\ op = [name |-> "Reset", arg |-> <<>>]
    /\ NoOperandCalls
    /\ lastExecutedAt = NoStepYet

NextTest == DoStep

SpecTest == InitTest /\ [][NextTest]_vars

(***************************************************************************)
(* The jumps and the port writes over their operands: the core at one of   *)
(* several CS:IP, with the instruction there.  Away from the reset vector  *)
(* the core is where a far jump at the reset vector took it.               *)
(***************************************************************************)
\* the values an operand byte of a jump takes
OperandBytes == {\h00, \h10, \h20, \h7F, \h80, \hFF}

\* where the instruction is fetched from
InstrPositions ==
    { [CS |-> \hF000, IP |-> \hFFF0], [CS |-> \hF000, IP |-> \hFFFE],
      [CS |-> 0, IP |-> \h100], [CS |-> 0, IP |-> \h200] }

FarJumps == { <<\hEA, o1, o2, s1, s2>> : o1 \in OperandBytes, o2 \in OperandBytes,
                                         s1 \in OperandBytes, s2 \in OperandBytes }

NearJumps == { <<\hE9, d1, d2>> : d1 \in OperandBytes \cup {\h03, \hFD}, d2 \in OperandBytes }

PortWrites == { <<\hE6, \h61>>, <<\hE6, \h00>>, <<\hE6, \hFF>>, <<\hEE>> }

ALValues == {\h00, \h05, \hA5, \hFF}

DXValues == {\h0000, \h0061, \h03F8, \hFFFF}

\* the far jump from the reset vector to a position
JumpTo(pos) == <<\hEA, pos.IP % 256, pos.IP \div 256, pos.CS % 256, pos.CS \div 256>>

InitInstr ==
    /\ \E pos \in InstrPositions, instr \in FarJumps \cup NearJumps \cup PortWrites,
          al \in ALValues, dx \in DXValues :
         LET at == BuildAddress(pos.CS, pos.IP)
         IN  /\ instr \notin PortWrites => (al = 0 /\ dx = 0)
             /\ instr[1] = \hE6 => dx = 0
             /\ registers = [n \in RegisterNames |->
                               CASE n = "AL" -> al
                                 [] n = "DX" -> dx
                                 [] n = "CS" -> pos.CS
                                 [] n = "IP" -> pos.IP
                                 [] OTHER -> 0]
             /\ mem = IF at = ResetVector THEN LoadImage(instr, at)
                      ELSE LoadImage(JumpTo(pos), ResetVector) @@ LoadImage(instr, at)
             /\ currentlyExecutingInstructionPointer = (IF at = ResetVector THEN 0 ELSE ResetVector)
             /\ lastExecutedInstructionPointer = (IF at = ResetVector THEN 0 ELSE ResetVector)
             /\ currentByteAtCodePointer = (IF at = ResetVector THEN 0 ELSE \hEA)
             /\ outcome = (IF at = ResetVector THEN "none" ELSE "ok")
             /\ op = [name |-> (IF at = ResetVector THEN "Reset" ELSE "Step"), arg |-> <<>>]
             /\ busOut = (IF at = ResetVector THEN Reset(registers).sent ELSE <<>>)
             /\ lastExecutedAt = (IF at = ResetVector THEN NoStepYet
                                  ELSE [CS |-> \hF000, IP |-> \hFFF0])
    /\ registers8Bit = <<"AL", "CL", "DL", "BL", "AH", "CH", "DH", "BH">>
    /\ registers16Bit = <<"AX", "CX", "DX", "BX", "SP", "BP", "SI", "DI">>
    /\ registersSegmentRegisters = <<"ES", "CS", "SS", "DS">>
    /\ mode = REAL_MODE
    /\ flags = [CS_OVERRIDE |-> 0, CS_OVERRIDE_ENABLE |-> FALSE, CR0 |-> 0]
    /\ ports \in PortImages
    /\ build = "cpu"
    /\ phase = "running"
    /\ NoOperandCalls

NextInstr == DoStep

SpecInstr == InitInstr /\ [][NextInstr]_vars

(***************************************************************************)
(* The operand operations called on a core after Init, with registers and  *)
(* memory that tell the operands apart: up to MaxRmOps calls of readRm8,   *)
(* readRm16, writeRm8 and writeRm16 with register-direct and memory forms  *)
(* of the ModR/M byte, and of writeR8 and writeR16.                        *)
(***************************************************************************)
\* C0, C3, C7: mod = 11 with rm = 0, 3, 7; 07: [BX]; 06: [disp16]; 47: [BX + disp8];
\* 84: [SI + disp16]
RmModRms ==
    { ModRm(\hC0, 0), ModRm(\hC3, 0), ModRm(\hC7, 0),
      ModRm(\h07, 0), ModRm(\h06, \h0020), ModRm(\h47, \h04), ModRm(\h84, \h0020) }

\* C8, D8: reg = 1, 3 (the argument of writeR8 and writeR16)
RegModRms == { ModRm(\hC8, 0), ModRm(\hD8, 0) }

RmMemory == [a \in 16..47 |-> (a * 7) % 256]

\* the pointers a caller passes as value: to a register, or to its own variable
ValuePointers8 == {"BL", "value"}

ValuePointers16 == {"DI", "value"}

\* what the caller's variable holds
Values8 == {\h5A}

Values16 == {\hBEEF}

InitRm ==
    /\ registers = [n \in RegisterNames |->
                      CASE n = "AL" -> \h05
                        [] n = "BL" -> \h07
                        [] n = "BH" -> \h09
                        [] n = "AX" -> \h1234
                        [] n = "BX" -> \h0010
                        [] n = "SI" -> \h0002
                        [] n = "DI" -> \h0BAD
                        [] n = "CS" -> \hF000
                        [] n = "IP" -> \hFFF0
                        [] OTHER -> 0]
    /\ registers8Bit = <<"AL", "CL", "DL", "BL", "AH", "CH", "DH", "BH">>
    /\ registers16Bit = <<"AX", "CX", "DX", "BX", "SP", "BP", "SI", "DI">>
    /\ registersSegmentRegisters = <<"ES", "CS", "SS", "DS">>
    /\ mode = REAL_MODE
    /\ flags = [CS_OVERRIDE |-> 0, CS_OVERRIDE_ENABLE |-> FALSE, CR0 |-> 0]
    /\ currentlyExecutingInstructionPointer = 0
    /\ lastExecutedInstructionPointer = 0
    /\ currentByteAtCodePointer = 0
    /\ mem = RmMemory
    /\ ports \in PortImages
    /\ busOut = Reset(registers).sent
    /\ build \in Builds
    /\ phase = "running"
    /\ outcome = "none"
    /\ op = [name |-> "Reset", arg |-> <<>>]
    /\ NoOperandCalls
    /\ lastExecutedAt = NoStepYet

DoReadRm8 ==
    /\ phase = "running"
    /\ operandCalls < MaxRmOps
    /\ \E modrm \in RmModRms :
         LET r == readRm8(Core, modrm)
         IN  /\ returned' = r.ptr
             /\ locals' = [locals EXCEPT !.destValue = r.destValue]
             /\ memAccesses' = r.accesses
             /\ op' = [name |-> "readRm8", arg |-> [modrm |-> modrm, value |-> "nil"]]
    /\ operandCalls' = operandCalls + 1
    /\ UNCHANGED <<registers, registers8Bit, registers16Bit, registersSegmentRegisters, mode,
                   flags, currentlyExecutingInstructionPointer, lastExecutedInstructionPointer,
                   currentByteAtCodePointer, mem, ports, busOut, build, phase, outcome,
                   lastExecutedAt>>

DoReadRm16 ==
    /\ phase = "running"
    /\ operandCalls < MaxRmOps
    /\ \E modrm \in RmModRms :
         LET r == readRm16(Core, modrm)
         IN  /\ returned' = r.ptr
             /\ locals' = [locals EXCEPT !.destValue = r.destValue]
             /\ memAccesses' = r.accesses
             /\ op' = [name |-> "readRm16", arg |-> [modrm |-> modrm, value |-> "nil"]]
    /\ operandCalls' = operandCalls + 1
    /\ UNCHANGED <<registers, registers8Bit, registers16Bit, registersSegmentRegisters, mode,
                   flags, currentlyExecutingInstructionPointer, lastExecutedInstructionPointer,
                   currentByteAtCodePointer, mem, ports, busOut, build, phase, outcome,
                   lastExecutedAt>>

DoWriteRm8 ==
    /\ phase = "running"
    /\ operandCalls < MaxRmOps
    /\ \E modrm \in RmModRms, value \in ValuePointers8, v \in Values8 :
         LET held == IF value = "value" THEN [locals EXCEPT !.value = v] ELSE locals
             w == writeRm8([Core EXCEPT !.locals = held], modrm, value)
         IN  /\ locals' = held
             /\ registers8Bit' = w.registers8Bit
             /\ mem' = w.mem
             /\ memAccesses' = w.accesses
             /\ op' = [name |-> "writeRm8", arg |-> [modrm |-> modrm, value |-> value]]
    /\ operandCalls' = operandCalls + 1
    /\ UNCHANGED <<registers, registers16Bit, registersSegmentRegisters, mode,
                   flags, currentlyExecutingInstructionPointer, lastExecutedInstructionPointer,
                   currentByteAtCodePointer, ports, busOut, build, phase, outcome, returned,
                   lastExecutedAt>>

DoWriteRm16 ==
    /\ phase = "running"
    /\ operandCalls < MaxRmOps
    /\ \E modrm \in RmModRms, value \in ValuePointers16, v \in Values16 :
         LET held == IF value = "value" THEN [locals EXCEPT !.value = v] ELSE locals
             w == writeRm16([Core EXCEPT !.locals = held], modrm, value)
         IN  /\ locals' = held
             /\ registers16Bit' = w.registers16Bit
             /\ mem' = w.mem
             /\ memAccesses' = w.accesses
             /\ op' = [name |-> "writeRm16", arg |-> [modrm |-> modrm, value |-> value]]
    /\ operandCalls' = operandCalls + 1
    /\ UNCHANGED <<registers, registers8Bit, registersSegmentRegisters, mode,
                   flags, currentlyExecutingInstructionPointer, lastExecutedInstructionPointer,
                   currentByteAtCodePointer, ports, busOut, build, phase, outcome, returned,
                   lastExecutedAt>>

DoWriteR8 ==
    /\ phase = "running"
    /\ operandCalls < MaxRmOps
    /\ \E modrm \in RegModRms, value \in ValuePointers8, v \in Values8 :
         /\ locals' = IF value = "value" THEN [locals EXCEPT !.value = v] ELSE locals
         /\ registers8Bit' = writeR8(Core, modrm, value)
         /\ op' = [name |-> "writeR8", arg |-> [modrm |-> modrm, value |-> value]]
    /\ memAccesses' = <<>>
    /\ operandCalls' = operandCalls + 1
    /\ UNCHANGED <<registers, registers16Bit, registersSegmentRegisters, mode,
                   flags, currentlyExecutingInstructionPointer, lastExecutedInstructionPointer,
                   currentByteAtCodePointer, mem, ports, busOut, build, phase, outcome,
                   returned, lastExecutedAt>>

DoWriteR16 ==
    /\ phase = "running"
    /\ operandCalls < MaxRmOps
    /\ \E modrm \in RegModRms, value \in ValuePointers16, v \in Values16 :
         /\ locals' = IF value = "value" THEN [locals EXCEPT !.value = v] ELSE locals
         /\ registers16Bit' = writeR16(Core, modrm, value)
         /\ op' = [name |-> "writeR16", arg |-> [modrm |-> modrm, value |-> value]]
    /\ memAccesses' = <<>>
    /\ operandCalls' = operandCalls + 1
    /\ UNCHANGED <<registers, registers8Bit, registersSegmentRegisters, mode,
                   flags, currentlyExecutingInstructionPointer, lastExecutedInstructionPointer,
                   currentByteAtCodePointer, mem, ports, busOut, build, phase, outcome,
                   returned, lastExecutedAt>>

NextRm ==
    DoReadRm8 \/ DoReadRm16 \/ DoWriteRm8 \/ DoWriteRm16 \/ DoWriteR8 \/ DoWriteR16

SpecRm == InitRm /\ [][NextRm]_vars

(***************************************************************************)
(* The properties.                                                         *)
(***************************************************************************)
\* the last transition was a Step that ran its instruction to the end
Completed == op'.name = "Step" /\ outcome' = "ok"

\* the opcode at CS:IP and the byte after it, before the Step
OpcodeAtEntry == ReadAddr8(mem, GetCurrentCodePointer(registers))

ModRmAtEntry == ReadAddr8(mem, GetCurrentCodePointer(registers) + 1)

\* nothing an instruction can write has changed
ArchitecturalStateUnchanged ==
    /\ registers' = registers
    /\ registers8Bit' = registers8Bit
    /\ registers16Bit' = registers16Bit
    /\ registersSegmentRegisters' = registersSegmentRegisters
    /\ mem' = mem
    /\ ports' = ports

\* C1: in real mode the linear address of CS:IP, from GetCurrentCodePointer and from
\* BuildAddress, is (segment*16 + offset) mod 2^20; after Reset it is FFFF0h.
C1_LinearAddress ==
    (phase = "running" /\ mode = REAL_MODE) =>
        /\ GetCurrentCodePointer(registers) = (registers.CS * 16 + registers.IP) % 1048576
        /\ BuildAddress(registers.CS, registers.IP) = (registers.CS * 16 + registers.IP) % 1048576
        /\ (op.name = "Reset" => GetCurrentCodePointer(registers) = \hFFFF0)

\* C2: every Reset sets CS to F000h and IP to FFF0h and broadcasts exactly one
\* GLOBAL_LOCK_BIOS_MEM_REGION; no Step and no mode switch broadcasts that message.
C2_ResetLocksBios ==
    /\ op.name = "Reset" =>
         /\ registers.CS = \hF000
         /\ registers.IP = \hFFF0
         /\ busOut = <<BusMessage(MESSAGE_GLOBAL_LOCK_BIOS_MEM_REGION, <<>>)>>
    /\ op.name \in {"Step", "OnReceiveMessage"} =>
         \A i \in 1..Len(busOut) : busOut[i].Subject # MESSAGE_GLOBAL_LOCK_BIOS_MEM_REGION

\* a Reset called after instructions ran and the mode was switched
C2_Witness ==
    /\ op.name = "Reset"
    /\ outcome = "ok"
    /\ mode = PROTECTED_MODE
    /\ lastExecutedInstructionPointer # 0

\* the bytes the instruction with this opcode and ModR/M byte occupies: opcode,
\* ModR/M, displacement and immediate
InstructionLength(opcode, modrmByte) ==
    CASE opcode \in {\h90, \hFA, \hFC, \hEC, \hED, \hEE, \hEF} -> 1
      [] opcode \in {\h3C, \hA8, \h74, \h75, \hE3, \hE4, \hE5, \hE6, \hE7, \hA0, \hA2}
                    \cup (\hB0..\hB7) -> 2
      [] opcode \in {\hA1, \hA3, \hE9} \cup (\hB8..\hBF) -> 3
      [] opcode = \hEA -> 5
      [] opcode \in {\h87, \h8A, \h8B, \h8C, \h8E} ->
           2 + DispSize(modrmByte \div 64, modrmByte % 8)

\* the instruction at CS:IP is a branch that is taken
TakenBranchAtEntry ==
    \/ OpcodeAtEntry \in {\hEA, \hE9}
    \/ OpcodeAtEntry = \h74 /\ registers.ZF # 0
    \/ OpcodeAtEntry = \h75 /\ registers.ZF = 0
    \/ OpcodeAtEntry = \hE3 /\ registers.CX = 0

\* C3: after a completed Step of an instruction that is not a taken branch, IP is
\* the IP at entry plus the number of bytes the instruction occupies (mod 2^16).
C3_IPAdvancesByLength ==
    [][(Completed /\ ~TakenBranchAtEntry) =>
          registers'.IP = U16(registers.IP + InstructionLength(OpcodeAtEntry, ModRmAtEntry))]_vars

\* C4: a Step entered with CS:IP at the address recorded as last executed ends in
\* the fatal loop diagnostic before any handler runs: nothing is changed.
C4_LoopWatchdog ==
    [][(op'.name = "Step"
        /\ GetCurrentCodePointer(registers) = lastExecutedInstructionPointer) =>
          /\ outcome' = LoopDiagnostic
          /\ phase' = "halted"
          /\ ArchitecturalStateUnchanged
          /\ currentByteAtCodePointer' = currentByteAtCodePointer
          /\ lastExecutedInstructionPointer' = lastExecutedInstructionPointer]_vars

\* a Step that the watchdog ended, after an instruction had completed
C4_Witness ==
    /\ op.name = "Step"
    /\ outcome = LoopDiagnostic
    /\ phase = "halted"
    /\ lastExecutedInstructionPointer = ResetVector
    /\ currentByteAtCodePointer # 0

RequiredOpcodes ==
    (\hA0..\hA3) \cup (\hB0..\hBF) \cup {\h8A, \h8B, \h8C, \h8E, \hEA, \hE9, \h74, \h75, \hE3,
    \hFA, \hFC, \h3C, \hA8, \h87, \h90} \cup (\hE4..\hE7) \cup (\hEC..\hEF)

\* C6: a Step on a byte with no handler is fatal and changes nothing; a Step on a
\* required opcode never ends in the unknown-opcode outcome.
C6_UnknownOpcode ==
    [][(op'.name = "Step" /\ outcome' = "unknown opcode") =>
          /\ phase' = "halted"
          /\ ArchitecturalStateUnchanged
          /\ OpcodeAtEntry \notin RequiredOpcodes]_vars

\* C7: a REQUEST_CPU_MODESWITCH with payload m sets the mode to m and broadcasts
\* exactly one GLOBAL_CPU_MODESWITCH with payload m, whatever m is; nothing else
\* changes the mode once Init has set it.
C7_ModeSwitch ==
    [][/\ (op'.name = "OnReceiveMessage"
           /\ op'.arg.Subject = MESSAGE_REQUEST_CPU_MODESWITCH) =>
             /\ mode' = op'.arg.Data[1]
             /\ busOut' = <<BusMessage(MESSAGE_GLOBAL_CPU_MODESWITCH, <<op'.arg.Data[1]>>)>>
       /\ mode' # mode =>
             \/ op'.name = "Init"
             \/ /\ op'.name = "OnReceiveMessage"
                /\ op'.arg.Subject = MESSAGE_REQUEST_CPU_MODESWITCH]_vars

\* a switch to a byte that is neither REAL_MODE nor PROTECTED_MODE
C7_Witness ==
    /\ op.name = "OnReceiveMessage"
    /\ op.arg.Subject = MESSAGE_REQUEST_CPU_MODESWITCH
    /\ op.arg.Data[1] \notin {REAL_MODE, PROTECTED_MODE}
    /\ mode = op.arg.Data[1]

\* C8: the protection-enable bit of CR0 is set exactly when the mode is PROTECTED.
C8_CR0AgreesWithMode ==
    phase # "constructed" => ((mode = PROTECTED_MODE) <=> (flags.CR0 % 2 = 1))

\* C9: at every instruction boundary AL, CL, DL, BL are the low bytes and AH, CH,
\* DH, BH the high bytes of AX, CX, DX, BX.
C9_RegisterAliasing ==
    phase # "constructed" =>
        \A i \in 1..4 :
            /\ registers[registers8Bit[i]] = registers[registers16Bit[i]] % 256
            /\ registers[registers8Bit[i + 4]] = registers[registers16Bit[i]] \div 256

\* C10: after CMP AL, imm8: ZF = 1 exactly when AL = imm8, CF = 1 exactly when
\* AL < imm8, both are 0 exactly when AL > imm8, and AL is unchanged.
C10_CmpFlags ==
    [][(Completed /\ OpcodeAtEntry = \h3C) =>
          LET al == registers.AL
              imm8 == ModRmAtEntry
          IN  /\ registers'.ZF = 1 <=> al = imm8
              /\ registers'.CF = 1 <=> al < imm8
              /\ (registers'.ZF = 0 /\ registers'.CF = 0) <=> al > imm8
              /\ registers'.ZF \in {0, 1}
              /\ registers'.CF \in {0, 1}
              /\ registers'.AL = al]_vars

\* CMP AL, 5 completed with AL = 4: a borrow
C10_Witness ==
    /\ op.name = "Step"
    /\ outcome = "ok"
    /\ currentByteAtCodePointer = \h3C
    /\ ReadAddr8(mem, ResetVector + 1) = 5
    /\ registers.AL = 4
    /\ registers.ZF = 0
    /\ registers.CF = 1

\* the number of 1 bits of a byte
PopCount(v) ==
    getBitValue(v, 0) + getBitValue(v, 1) + getBitValue(v, 2) + getBitValue(v, 3)
      + getBitValue(v, 4) + getBitValue(v, 5) + getBitValue(v, 6) + getBitValue(v, 7)

\* C11: TEST AL, imm8 leaves AL unchanged and sets SF to bit 7 of AL & imm8, ZF to 1
\* exactly when AL & imm8 = 0, PF to 1 exactly when AL & imm8 has an even number of
\* 1 bits, CF to 0 and OF to 0.
C11_TestFlags ==
    [][(Completed /\ OpcodeAtEntry = \hA8) =>
          LET al == registers.AL
              result == And8(al, ModRmAtEntry)
          IN  /\ registers'.AL = al
              /\ registers'.SF = result \div 128
              /\ registers'.ZF = (IF result = 0 THEN 1 ELSE 0)
              /\ registers'.PF = (IF PopCount(result) % 2 = 0 THEN 1 ELSE 0)
              /\ registers'.CF = 0
              /\ registers'.OF = 0]_vars

\* TEST AL, 83h completed with AL = C1h: the result 81h is negative, not zero and has
\* two 1 bits
C11_Witness ==
    /\ op.name = "Step"
    /\ outcome = "ok"
    /\ currentByteAtCodePointer = \hA8
    /\ ReadAddr8(mem, ResetVector + 1) = \h83
    /\ registers.AL = \hC1
    /\ registers.SF = 1
    /\ registers.ZF = 0
    /\ registers.PF = 1
    /\ registers.CF = 0

\* C12: JZ (74) is taken exactly when ZF is set and JNZ (75) exactly when ZF is
\* clear; when taken the new IP is IP + 2 + the sign-extended 8-bit offset (mod 2^16),
\* otherwise it is IP + 2.
C12_JzJnz ==
    [][(Completed /\ OpcodeAtEntry \in {\h74, \h75}) =>
          LET taken == IF OpcodeAtEntry = \h74 THEN registers.ZF # 0 ELSE registers.ZF = 0
          IN  registers'.IP = IF taken
                              THEN U16(registers.IP + 2 + SignExtend8(ModRmAtEntry))
                              ELSE U16(registers.IP + 2)]_vars

\* the architectural names of the 8 bit and the 16 bit registers, by index
R8 == <<"AL", "CL", "DL", "BL", "AH", "CH", "DH", "BH">>

R16 == <<"AX", "CX", "DX", "BX", "SP", "BP", "SI", "DI">>

\* C13: XCHG r/m16, r16 (87) with mod = 11 leaves R16[rm] holding the former R16[reg]
\* and R16[reg] the former R16[rm]; the flags and every other register except IP are
\* unchanged.
C13_XchgSwaps ==
    [][(Completed /\ OpcodeAtEntry = \h87 /\ ModRmAtEntry \div 64 = 3) =>
          LET reg == R16[((ModRmAtEntry \div 8) % 8) + 1]
              rm == R16[(ModRmAtEntry % 8) + 1]
          IN  \A n \in RegisterNames \ {"IP"} :
                  registers'[n] = IF n = rm THEN registers[reg]
                                  ELSE IF n = reg THEN registers[rm]
                                  ELSE registers[n]]_vars

\* the registers that share storage with a register: the 16 bit parent of an 8 bit
\* register, the two 8 bit halves of AX, CX, DX, BX
AliasedViews(n) ==
    {n} \cup { R16[((i - 1) % 4) + 1] : i \in { j \in 1..8 : R8[j] = n } }
        \cup { R8[i] : i \in { j \in 1..4 : R16[j] = n } }
        \cup { R8[i + 4] : i \in { j \in 1..4 : R16[j] = n } }

\* C14: the far jump EA sets IP to the little-endian word after the opcode and CS to
\* the little-endian word after that, and changes no other register and no flag.
C14_FarJump ==
    [][(Completed /\ OpcodeAtEntry = \hEA) =>
          LET at == GetCurrentCodePointer(registers)
              offset == ReadAddr8(mem, at + 1) + 256 * ReadAddr8(mem, at + 2)
              segment == ReadAddr8(mem, at + 3) + 256 * ReadAddr8(mem, at + 4)
          IN  /\ registers'.CS = segment
              /\ registers'.IP = offset
              /\ \A n \in RegisterNames \ {"CS", "IP"} : registers'[n] = registers[n]]_vars

\* EA 00 10 00 20 fetched at 0000:0100 completed: CS = 2000h, IP = 1000h
C14_Witness ==
    /\ op.name = "Step"
    /\ outcome = "ok"
    /\ currentByteAtCodePointer = \hEA
    /\ lastExecutedInstructionPointer = \h100
    /\ ReadAddr16(mem, \h101) = \h1000
    /\ ReadAddr16(mem, \h103) = \h2000
    /\ registers.CS = \h2000
    /\ registers.IP = \h1000

\* C15: the near jump E9 with the 16 bit offset d, read as a signed value, sets IP to
\* (IP + 3 + d) mod 2^16 and leaves CS unchanged.
C15_NearJump ==
    [][(Completed /\ OpcodeAtEntry = \hE9) =>
          LET at == GetCurrentCodePointer(registers)
              raw == ReadAddr8(mem, at + 1) + 256 * ReadAddr8(mem, at + 2)
              d == IF raw >= 32768 THEN raw - 65536 ELSE raw
          IN  /\ registers'.IP = (registers.IP + 3 + d) % 65536
              /\ registers'.CS = registers.CS]_vars

\* E9 03 00 fetched at 0000:0100 completed: IP = 0106h
C15_Witness ==
    /\ op.name = "Step"
    /\ outcome = "ok"
    /\ currentByteAtCodePointer = \hE9
    /\ lastExecutedInstructionPointer = \h100
    /\ ReadAddr16(mem, \h101) = 3
    /\ registers.CS = 0
    /\ registers.IP = \h106

\* C17: OUT imm8, AL (E6) writes AL to the port imm8 and OUT DX, AL (EE) writes AL to
\* the port DX; no other port, no memory byte and no register other than IP changes.
C17_PortWrite ==
    [][(Completed /\ OpcodeAtEntry \in {\hE6, \hEE}) =>
          LET port == IF OpcodeAtEntry = \hE6 THEN ModRmAtEntry ELSE registers.DX
          IN  /\ PortRead8(ports', port) = registers.AL
              /\ \A p \in ((DOMAIN ports) \cup (DOMAIN ports')) \ {port} :
                     PortRead8(ports', p) = PortRead8(ports, p)
              /\ mem' = mem
              /\ \A n \in RegisterNames \ {"IP"} : registers'[n] = registers[n]
              /\ registers8Bit' = registers8Bit
              /\ registers16Bit' = registers16Bit
              /\ registersSegmentRegisters' = registersSegmentRegisters]_vars

\* OUT DX, AL completed with DX = 03F8h and AL = A5h: the port 03F8h holds A5h and
\* the port 61h what it held
C17_Witness ==
    /\ op.name = "Step"
    /\ outcome = "ok"
    /\ currentByteAtCodePointer = \hEE
    /\ registers.DX = \h03F8
    /\ registers.AL = \hA5
    /\ PortRead8(ports, \h03F8) = \hA5
    /\ PortRead8(ports, \h61) = \hA5
    /\ PortRead8(ports, 0) = 0

\* C16: a Step on B0+r ib completes, sets R8[r] to imm8 and advances IP by 2; a Step
\* on B8+r iw completes, sets R16[r] to imm16 and advances IP by 3; no other register
\* than the destination, its aliased views and IP changes, and no flag.
C16_MovImmediate ==
    [][(op'.name = "Step" /\ OpcodeAtEntry \in \hB0..\hBF
        /\ GetCurrentCodePointer(registers) # lastExecutedInstructionPointer) =>
          LET wide == OpcodeAtEntry >= \hB8
              dest == IF wide THEN R16[OpcodeAtEntry - \hB8 + 1] ELSE R8[OpcodeAtEntry - \hB0 + 1]
              imm == IF wide THEN ReadAddr16(mem, GetCurrentCodePointer(registers) + 1)
                     ELSE ModRmAtEntry
          IN  /\ outcome' = "ok"
              /\ registers'[dest] = imm
              /\ registers'.IP = U16(registers.IP + (IF wide THEN 3 ELSE 2))
              /\ \A n \in RegisterNames \ (AliasedViews(dest) \cup {"IP"}) :
                     registers'[n] = registers[n]]_vars

C19_Jcxz ==
    [][(Completed /\ OpcodeAtEntry = \hE3) =>
          registers'.IP = IF registers.CX = 0
                          THEN U16(registers.IP + 2 + SignExtend8(ModRmAtEntry))
                          ELSE U16(registers.IP + 2)]_vars

\* C20: after CMP AL, imm8 the flags SF, OF and PF are those of the 8 bit
\* subtraction AL - imm8: SF is bit 7 of the result, OF is 1 exactly on signed
\* overflow, PF is 1 exactly when the result has even parity.
C20_CmpArithmeticFlags ==
    [][(Completed /\ OpcodeAtEntry = \h3C) =>
          LET al == registers.AL
              imm8 == ModRmAtEntry
              result == (al - imm8) % 256
              signed(v) == IF v >= 128 THEN v - 256 ELSE v
              wide == signed(al) - signed(imm8)
          IN  /\ registers'.SF = result \div 128
              /\ registers'.OF = (IF wide > 127 \/ wide < -128 THEN 1 ELSE 0)
              /\ registers'.PF = (IF PopCount(result) % 2 = 0 THEN 1 ELSE 0)]_vars

\* C21: the mode is REAL after Init and after every later call of Reset.
C21_RealModeAfterReset ==
    op.name \in {"Init", "Reset"} => mode = REAL_MODE

\* the 20 bit linear address of a segment and an offset
Linear20(segment, offset) == (segment * 16 + offset) % 1048576

\* C22: a Step ends in the loop diagnostic only if the 20 bit linear address of CS:IP
\* at its entry equals that of the instruction the preceding completed Step executed.
C22_WatchdogNoFalsePositive ==
    [][(phase = "running" /\ op'.name = "Step" /\ outcome' = LoopDiagnostic) =>
          /\ lastExecutedAt # NoStepYet
          /\ Linear20(registers.CS, registers.IP)
               = Linear20(lastExecutedAt.CS, lastExecutedAt.IP)]_vars

\* C23: the Step that follows a call of Reset (in Init or later) is never ended by
\* the loop watchdog.
C23_StepAfterReset ==
    [][(op.name \in {"Init", "Reset"} /\ op'.name = "Step") =>
          outcome' # LoopDiagnostic]_vars

\* C24: the register index tables are never rebound: entry i of the 16 bit table
\* denotes the register i of AX, CX, DX, BX, SP, BP, SI, DI and entry i of the 8 bit
\* table the register i of AL .. BH, after any sequence of operations.
C24_IndexTablesNeverRebound ==
    /\ registers8Bit = R8
    /\ registers16Bit = R16

====
